---- MODULE Spec2Model ----
(***************************************************************************)
(* Airline record management: the Client, Airline and Flight services and  *)
(* the three list repositories they work on.                               *)
(*                                                                         *)
(* A record or a payload is a Python dict: a function from the field names *)
(* it carries to their values.  An identity value is a JSON value that may *)
(* be an integer, a string of digits or another string; int() and str()    *)
(* are modelled on that representation.                                    *)
(***************************************************************************)
EXTENDS Integers, Sequences, FiniteSets, TLC

VARIABLES clients, airlines, flights, last, files, repos, pending, threads

vars == <<clients, airlines, flights, last, files, repos, pending, threads>>

(***************************************************************************)
(* Values                                                                  *)
(***************************************************************************)

\* JSON integer i
JInt(i) == [k |-> "int", n |-> i]

\* JSON string holding the decimal digits of i ("1" for 1)
JStr(i) == [k |-> "str", n |-> i]

\* a JSON string that is not a number ("abc")
JText == [k |-> "text", n |-> 0]

\* Python None as the value of a string field
None == "<None>"

\* Python None where a record is expected
NoneRec == [none |-> TRUE]

OK == "ok"

\* int(v) succeeds on an integer and on a string of digits
CanInt(v) == v.k \in {"int", "str"}

IntOf(v) == v.n

\* str(v) of an identity value: the string of its digits
StrOf(v) == IF v.k = "int" THEN JStr(v.n) ELSE v

\* str.strip() on the strings the model uses
Strip(s) == IF s \in {" ", "  "} THEN "" ELSE s

\* str.lower() on the strings the model uses
Lower(s) ==
    CASE s = "Business" -> "business"
      [] s = "Corporate" -> "corporate"
      [] s = "Leisure" -> "leisure"
      [] s = "VIP" -> "vip"
      [] s = "Charter" -> "charter"
      [] s = "Low Cost" -> "low cost"
      [] s = "Low_Cost" -> "low_cost"
      [] s = "National" -> "national"
      [] s = "Regional" -> "regional"
      [] s = "Alice" -> "alice"
      [] s = "Zeta" -> "zeta"
      [] s = "Air One" -> "air one"
      [] s = "ALI" -> "ali"
      [] s = "NAT" -> "nat"
      [] s = "Name" -> "name"
      [] s = "ID" -> "id"
      [] OTHER -> s

\* str.replace("_", " ") on the strings the model uses
ReplaceUnderscore(s) ==
    CASE s = "low_cost" -> "low cost"
      [] s = "Low_Cost" -> "Low Cost"
      [] OTHER -> s

\* the fields that hold identity values (every other field holds a string or None)
IdFields == {"id", "client_id", "airline_id"}

\* dict.get(f) with the default None
Get(m, f) == IF f \in DOMAIN m THEN m[f] ELSE None

\* {**rec, **patch}: the patch wins on conflict
Merge(rec, patch) ==
    [f \in (DOMAIN rec) \cup (DOMAIN patch) |->
        IF f \in DOMAIN patch THEN patch[f] ELSE rec[f]]

\* the mapping without the keys in fs
Without(m, fs) == [f \in (DOMAIN m) \ fs |-> m[f]]

\* the first of the indices in hits, 0 when there is none
FirstIdx(hits) == IF hits = {} THEN 0 ELSE CHOOSE i \in hits : \A j \in hits : i <= j

\* del s[i]
RemoveAt(s, i) == SubSeq(s, 1, i - 1) \o SubSeq(s, i + 1, Len(s))

\* s[i] = v
ReplaceAt(s, i, v) == [s EXCEPT ![i] = v]

\* the repository's list after a caller sets field f of the i-th record it
\* was handed to v: the stored dict changes when it is the dict handed out
CallerMutates(store, i, shares, f, v) ==
    IF shares THEN [store EXCEPT ![i] = Merge(@, [g \in {f} |-> v])] ELSE store

\* the outcome of a call: the error raised (or OK), the repository's list after
\* the call and the value returned
Outcome(e, st, r) == [err |-> e, st |-> st, ret |-> r]

\* min(a, b) and max(a, b)
PyMin(a, b) == IF a <= b THEN a ELSE b

PyMax(a, b) == IF a >= b THEN a ELSE b

\* s[a:b] for 0 <= a
Slice(s, a, b) == SubSeq(s, a + 1, PyMin(b, Len(s)))

\* str(v) of an identity value as text
IdText(v) ==
    CASE v.k = "text" -> "abc"
      [] v.n = 0 -> "0"
      [] v.n = 1 -> "1"
      [] v.n = 2 -> "2"
      [] OTHER -> "3"

\* the place of a lower-case string in the order of str comparison, on the
\* strings the model sorts by
StrRank(s) ==
    CASE s = "" -> 0
      [] s = "air one" -> 1
      [] s = "alice" -> 2
      [] s = "business" -> 3
      [] s = "charter" -> 4
      [] s = "corporate" -> 5
      [] s = "leisure" -> 6
      [] s = "low cost" -> 7
      [] s = "national" -> 8
      [] s = "regional" -> 9
      [] s = "vip" -> 10
      [] s = "zeta" -> 11
      [] OTHER -> 12

\* needle in hay, on the lower-case strings the model searches
Contains(hay, needle) ==
    \/ needle = ""
    \/ needle = hay
    \/ needle = "ali" /\ hay = "alice"
    \/ needle = "nat" /\ hay = "national"

(***************************************************************************)
(* record/common/search.py                                                 *)
(***************************************************************************)

\* str(value or "").lower() of a record's field
to_lowercase(record, f) ==
    IF f \notin DOMAIN record THEN ""
    ELSE IF f \in IdFields THEN IdText(record[f])
    ELSE IF record[f] = None THEN ""
    ELSE Lower(record[f])

matches_any_fields(record, fields, q) ==
    \E f \in fields : Contains(to_lowercase(record, f), Lower(q))

\* the subsequence of the items that satisfy keep (a set of indices)
SelectIdx(items, keep) ==
    LET F[n \in 0..Len(items)] ==
          IF n = 0 THEN <<>>
          ELSE IF n \in keep THEN Append(F[n - 1], items[n]) ELSE F[n - 1]
    IN F[Len(items)]

filter_by_q(items, fields, q) ==
    IF q = None \/ Strip(q) = "" THEN items
    ELSE SelectIdx(items,
            {i \in 1..Len(items) : matches_any_fields(items[i], fields, Strip(q))})

(***************************************************************************)
(* conf/enums.py                                                           *)
(***************************************************************************)

CLIENT_TYPES == {"Business", "Corporate", "Leisure", "VIP"}

AIRLINE_TYPES == {"Charter", "Low Cost", "National", "Regional"}

(***************************************************************************)
(* record/common/validation.py                                             *)
(***************************************************************************)

\* PHONE_RE = ^[+\d][\d\s().-]{6,}$ on the phone strings the model uses
PHONE_RE_match(s) == s \in {"+506 8888-8888"}

\* ZIP_RE = ^[\w\s-]{3,12}$ on the zip strings the model uses
ZIP_RE_match(s) == s \in {"10101", "100"}

\* variant: the test for a positive integer is left out
validate_int_id_nonpositive(value) ==
    IF ~CanInt(value) THEN [err |-> "InvalidID", val |-> 0]
    ELSE [err |-> OK, val |-> IntOf(value)]

\* the integer, or InvalidID when int() fails or the integer is not positive
validate_int_id(value) ==
    IF ~CanInt(value) THEN [err |-> "InvalidID", val |-> 0]
    ELSE IF IntOf(value) <= 0 THEN [err |-> "InvalidID", val |-> 0]
    ELSE [err |-> OK, val |-> IntOf(value)]

\* variant: the stored value is compared as it is, without int()
validate_unique_id_raw(items, candidate_id, field) ==
    IF \E i \in 1..Len(items) :
          field \in DOMAIN items[i] /\ items[i][field] = JInt(candidate_id)
    THEN "DuplicateID" ELSE OK

\* variant: any() over an exhausted iterator, so nothing is found
validate_unique_id_exhausted(items, candidate_id, field) == OK

\* DuplicateID when an item's field, read as an integer, is the candidate
validate_unique_id(items, candidate_id, field) ==
    IF \E i \in 1..Len(items) :
          (IF field \in DOMAIN items[i] THEN IntOf(items[i][field]) ELSE -1)
             = candidate_id
    THEN "DuplicateID" ELSE OK

\* InvalidInput when a field is missing or is a blank string
required_fields(payload, fields) ==
    LET missing == {f \in fields :
                      \/ f \notin DOMAIN payload
                      \/ f \notin IdFields /\ Strip(payload[f]) = ""}
    IN IF missing # {} THEN "InvalidInput" ELSE OK

\* variant: the membership test is left out
validate_enum_any(value, allowed) == OK

validate_enum(value, allowed) == IF value \notin allowed THEN "InvalidInput" ELSE OK

validate_phone(phone) == IF ~PHONE_RE_match(phone) THEN "InvalidInput" ELSE OK

validate_zip(zip_code) == IF ~ZIP_RE_match(zip_code) THEN "InvalidInput" ELSE OK

(***************************************************************************)
(* record/clients/repo.py: the list self._clients                          *)
(***************************************************************************)

ClientsRepo_list_all(cl) == cl

\* whether the records a method hands out are the dicts of self._clients.
\* list_all returns list(self._clients): a new list holding the same dicts;
\* get_by_id, insert and update return deepcopy(...), and insert stores
\* dict(record), a new dict (the values of a record are numbers, strings, None)
ClientsRepo_shares(method) == method = "list_all"

ClientsRepo_match(rec, client_id) ==
    (IF "id" \in DOMAIN rec THEN IntOf(rec["id"]) ELSE -1) = client_id

\* the first record with that id, or None
ClientsRepo_get_by_id(cl, client_id) ==
    LET i == FirstIdx({k \in 1..Len(cl) : ClientsRepo_match(cl[k], client_id)})
    IN IF i = 0 THEN NoneRec ELSE cl[i]

\* whether get_by_id raises: it has no raise statement, an absent id gives None
ClientsRepo_get_by_id_raises(cl, client_id) == FALSE

ClientsRepo_insert(cl, record) == Outcome(OK, Append(cl, record), record)

\* merges the patch without its "id" into the first record with that id
ClientsRepo_update(cl, client_id, patch) ==
    LET i == FirstIdx({k \in 1..Len(cl) : ClientsRepo_match(cl[k], client_id)})
    IN IF i = 0 THEN Outcome("NotFound", cl, NoneRec)
       ELSE LET new_rec == Merge(cl[i], Without(patch, {"id"}))
            IN Outcome(OK, ReplaceAt(cl, i, new_rec), new_rec)

\* variant: the record is removed from a copy of the list
ClientsRepo_delete_on_copy(cl, client_id) ==
    LET i == FirstIdx({k \in 1..Len(cl) : ClientsRepo_match(cl[k], client_id)})
    IN IF i = 0 THEN Outcome(OK, cl, FALSE)
       ELSE Outcome(OK, cl, TRUE)

\* removes the first record with that id; ret is the boolean returned
ClientsRepo_delete(cl, client_id) ==
    LET i == FirstIdx({k \in 1..Len(cl) : ClientsRepo_match(cl[k], client_id)})
    IN IF i = 0 THEN Outcome(OK, cl, FALSE)
       ELSE Outcome(OK, RemoveAt(cl, i), TRUE)

(***************************************************************************)
(* record/clients/service.py                                               *)
(***************************************************************************)

\* variant: str(s or "") without the strip()
_normalize_text_no_strip(s) == IF s = None THEN "" ELSE s

\* str(s or "").strip()
_normalize_text(s) == IF s = None THEN "" ELSE Strip(s)

\* variant: == written for !=
id_mismatch_inverted(body_id, path_id) == body_id = path_id

\* body_id != client_id (clients) and body_id != airline_id (airlines)
id_mismatch(body_id, path_id) == body_id # path_id

_validate_required_client_fields(payload) ==
    required_fields(payload, {"id", "type", "name"})

_validate_client_formats(payload) ==
    IF validate_enum(_normalize_text(Get(payload, "type")), CLIENT_TYPES) # OK
    THEN "InvalidInput"
    ELSE IF validate_phone(_normalize_text(Get(payload, "phone_number"))) # OK
    THEN "InvalidInput"
    ELSE validate_zip(_normalize_text(Get(payload, "zip_code")))

OptAddressLines == {"address_line2", "address_line3"}

create_client(cl, payload) ==
    IF _validate_required_client_fields(payload) # OK
    THEN Outcome("InvalidInput", cl, NoneRec)
    ELSE LET v == validate_int_id(payload["id"]) IN
    IF v.err # OK THEN Outcome(v.err, cl, NoneRec)
    ELSE IF validate_unique_id(ClientsRepo_list_all(cl), v.val, "id") # OK
    THEN Outcome("DuplicateID", cl, NoneRec)
    ELSE IF _validate_client_formats(payload) # OK
    THEN Outcome("InvalidInput", cl, NoneRec)
    ELSE LET record ==
               [f \in (DOMAIN payload) \cup OptAddressLines |->
                   IF f \in OptAddressLines /\ _normalize_text(Get(payload, f)) = ""
                   THEN None ELSE payload[f]]
         IN ClientsRepo_insert(cl, record)

\* create_client up to the uniqueness check (steps 1 and 2): the error raised,
\* or OK.  The check reads the list that repo.list_all() returned
create_client_check(cl, payload) ==
    IF _validate_required_client_fields(payload) # OK THEN "InvalidInput"
    ELSE LET v == validate_int_id(payload["id"]) IN
    IF v.err # OK THEN v.err
    ELSE validate_unique_id(ClientsRepo_list_all(cl), v.val, "id")

\* create_client from the format checks on (steps 3 to 5), on the list as it
\* is when the insert runs
create_client_insert(cl, payload) ==
    IF _validate_client_formats(payload) # OK
    THEN Outcome("InvalidInput", cl, NoneRec)
    ELSE LET record ==
               [f \in (DOMAIN payload) \cup OptAddressLines |->
                   IF f \in OptAddressLines /\ _normalize_text(Get(payload, f)) = ""
                   THEN None ELSE payload[f]]
         IN ClientsRepo_insert(cl, record)

update_client(cl, client_id, updates) ==
    LET v == validate_int_id(client_id) IN
    IF v.err # OK THEN Outcome(v.err, cl, NoneRec)
    ELSE IF "id" \in DOMAIN updates /\ validate_int_id(updates["id"]).err # OK
    THEN Outcome("InvalidID", cl, NoneRec)
    ELSE IF "id" \in DOMAIN updates /\ id_mismatch(validate_int_id(updates["id"]).val, v.val)
    THEN Outcome("ImmutableID", cl, NoneRec)
    ELSE IF ClientsRepo_get_by_id(cl, v.val) = NoneRec
    THEN Outcome("NotFound", cl, NoneRec)
    ELSE IF "type" \in DOMAIN updates
            /\ validate_enum(_normalize_text(updates["type"]), CLIENT_TYPES) # OK
    THEN Outcome("InvalidInput", cl, NoneRec)
    ELSE IF "phone_number" \in DOMAIN updates
            /\ validate_phone(_normalize_text(updates["phone_number"])) # OK
    THEN Outcome("InvalidInput", cl, NoneRec)
    ELSE IF "zip_code" \in DOMAIN updates
            /\ validate_zip(_normalize_text(updates["zip_code"])) # OK
    THEN Outcome("InvalidInput", cl, NoneRec)
    ELSE LET patch ==
               [f \in DOMAIN updates |->
                   IF f \in OptAddressLines /\ _normalize_text(updates[f]) = ""
                   THEN None ELSE updates[f]]
         IN ClientsRepo_update(cl, v.val, patch)

\* no look at the flights repository: the client is removed when it exists
delete_client(cl, client_id) ==
    LET v == validate_int_id(client_id) IN
    IF v.err # OK THEN Outcome(v.err, cl, NoneRec)
    ELSE LET d == ClientsRepo_delete(cl, v.val)
         IN IF ~d.ret THEN Outcome("NotFound", d.st, NoneRec)
            ELSE Outcome(OK, d.st, NoneRec)

get_client(cl, client_id) ==
    LET v == validate_int_id(client_id) IN
    IF v.err # OK THEN Outcome(v.err, cl, NoneRec)
    ELSE LET rec == ClientsRepo_get_by_id(cl, v.val)
         IN IF rec = NoneRec THEN Outcome("NotFound", cl, NoneRec)
            ELSE Outcome(OK, cl, rec)

Clients_SEARCH_FIELDS == {"id", "name", "city", "country", "phone_number"}

Clients_ALLOWED_SORTS == {"id", "name", "city", "state", "country", "type"}

DEFAULT_LIMIT == 50

MAX_LIMIT == 200

\* str(a or "").strip().lower() == str(b or "").strip().lower()
_equals_ci(a, b) ==
    Lower(Strip(IF a = None THEN "" ELSE a)) = Lower(Strip(IF b = None THEN "" ELSE b))

\* the items that equal, for each filter given, the filter's value
_apply_exact_filters(items, filters) ==
    SelectIdx(items,
       {i \in 1..Len(items) :
           \A f \in DOMAIN filters :
              _normalize_text(filters[f]) # "" => _equals_ci(Get(items[i], f), filters[f])})

\* the key a record is sorted by: the integer id, or the lower-case text of
\* the field (as its place in the order of strings); a key outside the
\* allow-list falls back to "id"
_safe_sort_key(rec, key, allowed) ==
    LET k == IF key \in allowed THEN key ELSE "id"
    IN IF k = "id"
       THEN (IF "id" \in DOMAIN rec /\ CanInt(rec["id"]) THEN IntOf(rec["id"]) ELSE 0)
       ELSE StrRank(IF Get(rec, k) = None THEN "" ELSE Lower(Get(rec, k)))

\* sorted(items, key=_safe_sort_key(key)): stable, ascending
sorted(items, key, allowed) ==
    LET F[n \in 0..Len(items)] ==
          IF n = 0 THEN <<>>
          ELSE LET x == items[n]
                   before == {i \in 1..Len(F[n - 1]) :
                                _safe_sort_key(F[n - 1][i], key, allowed)
                                   <= _safe_sort_key(x, key, allowed)}
                   m == Cardinality(before)
               IN SubSeq(F[n - 1], 1, m) \o <<x>> \o SubSeq(F[n - 1], m + 1, n - 1)
    IN F[Len(items)]

\* limit = max(0, min(int(limit), MAX_LIMIT)); offset = max(0, int(offset))
Paging(limit, offset) ==
    IF ~CanInt(limit) \/ ~CanInt(offset)
    THEN [err |-> "InvalidInput", limit |-> 0, offset |-> 0]
    ELSE [err |-> OK, limit |-> PyMax(0, PyMin(IntOf(limit), MAX_LIMIT)),
          offset |-> PyMax(0, IntOf(offset))]

\* items_sorted[offset : offset + limit] if limit > 0 else items_sorted[offset:]
Window(items_sorted, limit, offset) ==
    IF limit > 0 THEN Slice(items_sorted, offset, offset + limit)
    ELSE Slice(items_sorted, offset, Len(items_sorted))

\* _normalize_text(sort).lower() or "id"
SortKeyOf(sort) == IF Lower(_normalize_text(sort)) = "" THEN "id" ELSE Lower(_normalize_text(sort))

Envelope(window, count, limit, offset, sort_key) ==
    [data |-> window, count |-> count, limit |-> limit, offset |-> offset,
     sort |-> sort_key]

list_clients(cl, limit, offset, sort) ==
    LET pg == Paging(limit, offset)
        sort_key == SortKeyOf(sort)
    IN
    IF pg.err # OK THEN Outcome("InvalidInput", cl, NoneRec)
    ELSE IF sort_key \notin Clients_ALLOWED_SORTS THEN Outcome("InvalidInput", cl, NoneRec)
    ELSE LET items_sorted == sorted(ClientsRepo_list_all(cl), sort_key, Clients_ALLOWED_SORTS)
         IN Outcome(OK, cl,
               Envelope(Window(items_sorted, pg.limit, pg.offset), Len(items_sorted),
                        pg.limit, pg.offset, sort_key))

\* filters holds the exact filters given among type, city, state, country
search_clients(cl, q, filters, limit, offset, sort) ==
    LET pg == Paging(limit, offset)
        sort_key == SortKeyOf(sort)
    IN
    IF pg.err # OK THEN Outcome("InvalidInput", cl, NoneRec)
    ELSE IF sort_key \notin Clients_ALLOWED_SORTS THEN Outcome("InvalidInput", cl, NoneRec)
    ELSE LET items == _apply_exact_filters(
                         filter_by_q(ClientsRepo_list_all(cl), Clients_SEARCH_FIELDS, q),
                         filters)
             items_sorted == sorted(items, sort_key, Clients_ALLOWED_SORTS)
         IN Outcome(OK, cl,
               Envelope(Window(items_sorted, pg.limit, pg.offset), Len(items_sorted),
                        pg.limit, pg.offset, sort_key))

(***************************************************************************)
(* record/airlines/repo.py: the list self._airlines                        *)
(***************************************************************************)

AirlinesRepo_list_all(al) == al

\* whether the records a method hands out are the dicts of self._airlines:
\* list_all returns [deepcopy(r) for r in ...], the others deepcopy(...)
AirlinesRepo_shares(method) == FALSE

AirlinesRepo_match(rec, airline_id) ==
    (IF "id" \in DOMAIN rec THEN IntOf(rec["id"]) ELSE -1) = airline_id

\* the first record with that id; raises NotFound when there is none
AirlinesRepo_get_by_id(al, airline_id) ==
    LET i == FirstIdx({k \in 1..Len(al) : AirlinesRepo_match(al[k], airline_id)})
    IN IF i = 0 THEN Outcome("NotFound", al, NoneRec) ELSE Outcome(OK, al, al[i])

AirlinesRepo_insert(al, record) == Outcome(OK, Append(al, record), record)

\* updated = dict(rec); updated.update(patch): every key of the patch is written
AirlinesRepo_update(al, airline_id, patch) ==
    LET i == FirstIdx({k \in 1..Len(al) : AirlinesRepo_match(al[k], airline_id)})
    IN IF i = 0 THEN Outcome("NotFound", al, NoneRec)
       ELSE LET updated == Merge(al[i], patch)
            IN Outcome(OK, ReplaceAt(al, i, updated), updated)

\* variant: when no record has that id the first record is removed
AirlinesRepo_delete_pops_first(al, airline_id) ==
    LET i == FirstIdx({k \in 1..Len(al) : AirlinesRepo_match(al[k], airline_id)})
    IN IF i = 0 THEN Outcome(OK, SubSeq(al, 2, Len(al)), FALSE)
       ELSE Outcome(OK, RemoveAt(al, i), TRUE)

\* variant: True is returned when no record has that id
AirlinesRepo_delete_reports_true(al, airline_id) ==
    LET i == FirstIdx({k \in 1..Len(al) : AirlinesRepo_match(al[k], airline_id)})
    IN IF i = 0 THEN Outcome(OK, al, TRUE)
       ELSE Outcome(OK, RemoveAt(al, i), TRUE)

\* removes the first record with that id; ret is the boolean returned
AirlinesRepo_delete(al, airline_id) ==
    LET i == FirstIdx({k \in 1..Len(al) : AirlinesRepo_match(al[k], airline_id)})
    IN IF i = 0 THEN Outcome(OK, al, FALSE)
       ELSE Outcome(OK, RemoveAt(al, i), TRUE)

(***************************************************************************)
(* record/airlines/service.py                                              *)
(***************************************************************************)

\* str(x or "").strip()
_norm(x) == IF x = None THEN "" ELSE Strip(x)

_validate_required(payload) == required_fields(payload, {"id", "type", "company_name"})

\* the member of AIRLINE_TYPES whose lower case is the normalized value
_canonical_airline_type(value) ==
    LET v == Lower(ReplaceUnderscore(_norm(value)))
    IN IF \E opt \in AIRLINE_TYPES : Lower(opt) = v
       THEN [err |-> OK, val |-> CHOOSE opt \in AIRLINE_TYPES : Lower(opt) = v]
       ELSE [err |-> "InvalidInput", val |-> ""]

create_airline(al, payload) ==
    IF _validate_required(payload) # OK
    THEN Outcome("InvalidInput", al, NoneRec)
    ELSE LET v == validate_int_id(payload["id"]) IN
    IF v.err # OK THEN Outcome(v.err, al, NoneRec)
    ELSE IF validate_unique_id(AirlinesRepo_list_all(al), v.val, "id") # OK
    THEN Outcome("DuplicateID", al, NoneRec)
    ELSE LET c == _canonical_airline_type(Get(payload, "type")) IN
    IF c.err # OK THEN Outcome(c.err, al, NoneRec)
    ELSE AirlinesRepo_insert(al, [payload EXCEPT !["type"] = c.val])

update_airline(al, airline_id, updates) ==
    LET v == validate_int_id(airline_id) IN
    IF v.err # OK THEN Outcome(v.err, al, NoneRec)
    ELSE IF "id" \in DOMAIN updates /\ validate_int_id(updates["id"]).err # OK
    THEN Outcome("InvalidID", al, NoneRec)
    ELSE IF "id" \in DOMAIN updates /\ id_mismatch(validate_int_id(updates["id"]).val, v.val)
    THEN Outcome("ImmutableID", al, NoneRec)
    ELSE IF AirlinesRepo_get_by_id(al, v.val).err # OK
    THEN Outcome("NotFound", al, NoneRec)
    ELSE IF "type" \in DOMAIN updates
            /\ _canonical_airline_type(updates["type"]).err # OK
    THEN Outcome("InvalidInput", al, NoneRec)
    ELSE LET patch ==
               [f \in DOMAIN updates |->
                   IF f = "type" THEN _canonical_airline_type(updates[f]).val
                   ELSE updates[f]]
         IN AirlinesRepo_update(al, v.val, patch)

\* no look at the flights repository: the airline is removed when it exists
delete_airline(al, airline_id) ==
    LET v == validate_int_id(airline_id) IN
    IF v.err # OK THEN Outcome(v.err, al, NoneRec)
    ELSE LET d == AirlinesRepo_delete(al, v.val)
         IN IF ~d.ret THEN Outcome("NotFound", d.st, NoneRec)
            ELSE Outcome(OK, d.st, NoneRec)

get_airline(al, airline_id) ==
    LET v == validate_int_id(airline_id) IN
    IF v.err # OK THEN Outcome(v.err, al, NoneRec)
    ELSE AirlinesRepo_get_by_id(al, v.val)

Airlines_SEARCH_FIELDS == {"id", "company_name", "type"}

Airlines_ALLOWED_SORTS == {"id", "company_name", "type"}

\* _norm(a).lower() == _norm(b).lower()
_eq_ci(a, b) == Lower(_norm(a)) = Lower(_norm(b))

list_airlines(al, limit, offset, sort) ==
    LET pg == Paging(limit, offset)
        sort_key == SortKeyOf(sort)
    IN
    IF pg.err # OK THEN Outcome("InvalidInput", al, NoneRec)
    ELSE IF sort_key \notin Airlines_ALLOWED_SORTS THEN Outcome("InvalidInput", al, NoneRec)
    ELSE LET items_sorted == sorted(AirlinesRepo_list_all(al), sort_key, Airlines_ALLOWED_SORTS)
         IN Outcome(OK, al,
               Envelope(Window(items_sorted, pg.limit, pg.offset), Len(items_sorted),
                        pg.limit, pg.offset, sort_key))

\* every match, without paging: the envelope has data, count and sort
search_airlines(al, q, type, sort) ==
    LET sort_key == SortKeyOf(sort) IN
    IF sort_key \notin Airlines_ALLOWED_SORTS THEN Outcome("InvalidInput", al, NoneRec)
    ELSE LET found == filter_by_q(AirlinesRepo_list_all(al), Airlines_SEARCH_FIELDS, q)
             items == IF _norm(type) # ""
                      THEN SelectIdx(found,
                              {i \in 1..Len(found) : _eq_ci(Get(found[i], "type"), type)})
                      ELSE found
             items_sorted == sorted(items, sort_key, Airlines_ALLOWED_SORTS)
         IN Outcome(OK, al,
               [data |-> items_sorted, count |-> Len(items_sorted), sort |-> sort_key])

(***************************************************************************)
(* The validation helpers the flights service imports from                 *)
(* record/common/validation.py.  The file defines none of them; they are   *)
(* written here from the specification's section 4.3.                      *)
(***************************************************************************)

\* the local calendar date of the run, <<year, month, day>>
Today == <<2026, 11, 5>>

\* a >= b on calendar dates
DateGE(a, b) ==
    \/ a[1] > b[1]
    \/ a[1] = b[1] /\ a[2] > b[2]
    \/ a[1] = b[1] /\ a[2] = b[2] /\ a[3] >= b[3]

\* InvalidInput when a field is missing or is a blank string
require_fields(payload, fields) == required_fields(payload, fields)

\* the integer, or InvalidID when the value is no positive integer
require_int_id(value) == validate_int_id(value)

\* a bare date (midnight implied) or a full date-time; InvalidInput when the
\* string is empty or does not parse
parse_iso_datetime(value) ==
    CASE value = "2999-01-01" ->
            [err |-> OK, date |-> <<2999, 1, 1>>, time |-> <<0, 0, 0>>]
      [] value = "2999-01-01T00:00:00" ->
            [err |-> OK, date |-> <<2999, 1, 1>>, time |-> <<0, 0, 0>>]
      [] value = "1999-01-01" ->
            [err |-> OK, date |-> <<1999, 1, 1>>, time |-> <<0, 0, 0>>]
      [] OTHER ->
            [err |-> "InvalidInput", date |-> <<0, 0, 0>>, time |-> <<0, 0, 0>>]

\* compares the date portion with the current local calendar date
is_today_or_future(dt) == DateGE(dt.date, Today)

(***************************************************************************)
(* record/flights/repo.py: the list self._flights                          *)
(***************************************************************************)

FlightsRepo_list_all(fl) == fl

\* whether the records a method hands out are the dicts of self._flights:
\* list_all returns [deepcopy(r) for r in ...], the others deepcopy(...)
FlightsRepo_shares(method) == FALSE

\* variant: the dates are compared after parsing
FlightsRepo_match_parsed(rec, client_id, airline_id, date) ==
    /\ (IF "client_id" \in DOMAIN rec THEN IntOf(rec["client_id"]) ELSE -1) = client_id
    /\ (IF "airline_id" \in DOMAIN rec THEN IntOf(rec["airline_id"]) ELSE -1) = airline_id
    /\ "date" \in DOMAIN rec
    /\ parse_iso_datetime(rec["date"]) = parse_iso_datetime(date)

FlightsRepo_match(rec, client_id, airline_id, date) ==
    /\ (IF "client_id" \in DOMAIN rec THEN IntOf(rec["client_id"]) ELSE -1) = client_id
    /\ (IF "airline_id" \in DOMAIN rec THEN IntOf(rec["airline_id"]) ELSE -1) = airline_id
    /\ "date" \in DOMAIN rec /\ rec["date"] = date

\* the first flight with that key; raises NotFound when there is none
FlightsRepo_get_one(fl, client_id, airline_id, date) ==
    LET i == FirstIdx({k \in 1..Len(fl) : FlightsRepo_match(fl[k], client_id, airline_id, date)})
    IN IF i = 0 THEN Outcome("NotFound", fl, NoneRec) ELSE Outcome(OK, fl, fl[i])

FlightsRepo_insert(fl, record) == Outcome(OK, Append(fl, record), record)

\* updated = dict(rec); updated.update(patch): every key of the patch is written
FlightsRepo_update(fl, client_id, airline_id, date, patch) ==
    LET i == FirstIdx({k \in 1..Len(fl) : FlightsRepo_match(fl[k], client_id, airline_id, date)})
    IN IF i = 0 THEN Outcome("NotFound", fl, NoneRec)
       ELSE LET updated == Merge(fl[i], patch)
            IN Outcome(OK, ReplaceAt(fl, i, updated), updated)

\* removes the first flight with that key; ret is the boolean returned
FlightsRepo_delete(fl, client_id, airline_id, date) ==
    LET i == FirstIdx({k \in 1..Len(fl) : FlightsRepo_match(fl[k], client_id, airline_id, date)})
    IN IF i = 0 THEN Outcome(OK, fl, FALSE)
       ELSE Outcome(OK, RemoveAt(fl, i), TRUE)

(***************************************************************************)
(* record/flights/service.py                                               *)
(***************************************************************************)

REQUIRED_FIELDS == {"client_id", "airline_id", "date", "start_city", "end_city"}

\* try: get_clients_repo().get_by_id(client_id); return True
\* except Exception: return False
_exists_client(cl, client_id) == ~ClientsRepo_get_by_id_raises(cl, client_id)

\* variant: the lookup returns None instead of raising, as the clients' does
_exists_airline_no_raise(al, airline_id) == TRUE

\* AirlinesRepo.get_by_id raises NotFound for an absent id
_exists_airline(al, airline_id) == AirlinesRepo_get_by_id(al, airline_id).err = OK

create_flight(fl, cl, al, payload) ==
    IF require_fields(payload, REQUIRED_FIELDS) # OK
    THEN Outcome("InvalidInput", fl, NoneRec)
    ELSE LET c == require_int_id(payload["client_id"])
             a == require_int_id(payload["airline_id"])
             date_txt == payload["date"]
         IN
    IF c.err # OK THEN Outcome(c.err, fl, NoneRec)
    ELSE IF a.err # OK THEN Outcome(a.err, fl, NoneRec)
    ELSE IF parse_iso_datetime(date_txt).err # OK
    THEN Outcome("InvalidInput", fl, NoneRec)
    ELSE IF ~_exists_client(cl, c.val) THEN Outcome("InvalidInput", fl, NoneRec)
    ELSE IF ~_exists_airline(al, a.val) THEN Outcome("InvalidInput", fl, NoneRec)
    ELSE IF \E i \in 1..Len(FlightsRepo_list_all(fl)) :
               FlightsRepo_match(fl[i], c.val, a.val, date_txt)
    THEN Outcome("InvalidInput", fl, NoneRec)
    ELSE FlightsRepo_insert(fl,
            [client_id |-> JInt(c.val), airline_id |-> JInt(a.val), date |-> date_txt,
             start_city |-> payload["start_city"], end_city |-> payload["end_city"]])

get_flight(fl, client_id, airline_id, date) ==
    LET c == require_int_id(client_id)
        a == require_int_id(airline_id)
    IN
    IF c.err # OK THEN Outcome(c.err, fl, NoneRec)
    ELSE IF a.err # OK THEN Outcome(a.err, fl, NoneRec)
    ELSE IF parse_iso_datetime(date).err # OK THEN Outcome("InvalidInput", fl, NoneRec)
    ELSE FlightsRepo_get_one(fl, c.val, a.val, date)

\* for k in ("client_id", "airline_id", "date"):
\*     if k in updates and str(updates[k]) != (str(client_id) if k != "date" else date)
\* both id keys are compared with str(client_id)
IdentityChange(updates, client_id, airline_id, date) ==
    \/ "client_id" \in DOMAIN updates /\ StrOf(updates["client_id"]) # JStr(client_id)
    \/ "airline_id" \in DOMAIN updates /\ StrOf(updates["airline_id"]) # JStr(client_id)
    \/ "date" \in DOMAIN updates /\ updates["date"] # date

update_flight(fl, client_id, airline_id, date, updates) ==
    LET c == require_int_id(client_id)
        a == require_int_id(airline_id)
    IN
    IF c.err # OK THEN Outcome(c.err, fl, NoneRec)
    ELSE IF a.err # OK THEN Outcome(a.err, fl, NoneRec)
    ELSE IF parse_iso_datetime(date).err # OK THEN Outcome("InvalidInput", fl, NoneRec)
    ELSE IF IdentityChange(updates, c.val, a.val, date)
    THEN Outcome("ImmutableID", fl, NoneRec)
    ELSE IF "date" \in DOMAIN updates /\ parse_iso_datetime(updates["date"]).err # OK
    THEN Outcome("InvalidInput", fl, NoneRec)
    ELSE FlightsRepo_update(fl, c.val, a.val, date, updates)

delete_flight(fl, client_id, airline_id, date) ==
    LET c == require_int_id(client_id)
        a == require_int_id(airline_id)
    IN
    IF c.err # OK THEN Outcome(c.err, fl, NoneRec)
    ELSE IF a.err # OK THEN Outcome(a.err, fl, NoneRec)
    ELSE IF parse_iso_datetime(date).err # OK THEN Outcome("InvalidInput", fl, NoneRec)
    ELSE LET d == FlightsRepo_delete(fl, c.val, a.val, date)
         IN IF ~d.ret THEN Outcome("NotFound", d.st, NoneRec)
            ELSE Outcome(OK, d.st, NoneRec)

(***************************************************************************)
(* record/common/storage.py and conf/settings.py: the JSON file behind a   *)
(* repository.  A file is absent or holds a text; the text of a list is    *)
(* the rows written so far and whether the closing bracket was written.    *)
(***************************************************************************)

AUTOSAVE == TRUE

\* no file at the path
Absent == [exists |-> FALSE, rows |-> <<>>, closed |-> FALSE]

\* the file right after open("w"): it exists and is empty
Truncated == [exists |-> TRUE, rows |-> <<>>, closed |-> FALSE]

\* json.dump of one value: an integer is written as a number, a string as a
\* string, None as null
json_dump_value(f, v) ==
    IF f \in IdFields
    THEN CASE v.k = "int" -> [t |-> "number", n |-> v.n, s |-> ""]
           [] v.k = "str" -> [t |-> "string", n |-> v.n, s |-> "digits"]
           [] OTHER -> [t |-> "string", n |-> 0, s |-> "abc"]
    ELSE IF v = None THEN [t |-> "null", n |-> 0, s |-> ""]
         ELSE [t |-> "string", n |-> 0, s |-> v]

\* json.load of one value
json_load_value(f, j) ==
    IF f \in IdFields
    THEN CASE j.t = "number" -> JInt(j.n)
           [] j.t = "string" /\ j.s = "digits" -> JStr(j.n)
           [] OTHER -> JText
    ELSE IF j.t = "null" THEN None ELSE j.s

json_dump(rows) ==
    [i \in 1..Len(rows) |-> [f \in DOMAIN rows[i] |-> json_dump_value(f, rows[i][f])]]

json_load(text) ==
    [i \in 1..Len(text) |-> [f \in DOMAIN text[i] |-> json_load_value(f, text[i][f])]]

\* [] when the file is missing or json.load raises (an unfinished text)
load_list(file) ==
    IF ~file.exists THEN <<>>
    ELSE IF ~file.closed THEN <<>>
    ELSE json_load(file.rows)

\* the file after n steps of save_list writing text: open("w") empties it
\* (n = 0), json.dump appends the rows one after the other, and the closing
\* bracket ends the text (n = Len(text) + 1)
save_list_step(file, text, n) ==
    IF n = Len(text) + 1 THEN [exists |-> TRUE, rows |-> text, closed |-> TRUE]
    ELSE [exists |-> TRUE, rows |-> SubSeq(text, 1, n), closed |-> FALSE]

\* the file after save_list(file_path, rows) returned
save_list(file, rows) == save_list_step(file, json_dump(rows), Len(rows) + 1)

(***************************************************************************)
(* record/clients/repo.py: a ClientsRepo object (the three repository      *)
(* classes load, save and reload in the same way).  self is the record of  *)
(* _loaded, _clients and _autosave; a method gives the object after the    *)
(* call, the error raised, the value returned and whether save() ran.      *)
(***************************************************************************)

\* ClientsRepo(data_dir, autosave)
ClientsRepo_init(autosave) == [loaded |-> FALSE, rows |-> <<>>, autosave |-> autosave]

\* variant: the file is read on every access
ClientsRepo_ensure_loaded_always(self, file) ==
    [self EXCEPT !.rows = load_list(file), !.loaded = TRUE]

ClientsRepo_ensure_loaded(self, file) ==
    IF ~self.loaded THEN [self EXCEPT !.rows = load_list(file), !.loaded = TRUE]
    ELSE self

ClientsRepo_reload(self, file) ==
    [self EXCEPT !.rows = load_list(file), !.loaded = TRUE]

Done(self, o, saves) == [self |-> self, err |-> o.err, ret |-> o.ret, saves |-> saves]

\* variant: update does not save
ClientsRepo_self_update_unsaved(self, file, client_id, patch) ==
    LET s1 == ClientsRepo_ensure_loaded(self, file)
        o == ClientsRepo_update(s1.rows, client_id, patch)
    IN Done([s1 EXCEPT !.rows = o.st], o, FALSE)

\* variant: save() runs whatever _autosave is
ClientsRepo_self_insert_saving(self, file, record) ==
    LET s1 == ClientsRepo_ensure_loaded(self, file)
        o == ClientsRepo_insert(s1.rows, record)
    IN Done([s1 EXCEPT !.rows = o.st], o, TRUE)

ClientsRepo_self_list_all(self, file) ==
    LET s1 == ClientsRepo_ensure_loaded(self, file)
    IN Done(s1, Outcome(OK, s1.rows, ClientsRepo_list_all(s1.rows)), FALSE)

ClientsRepo_self_save(self, file) ==
    LET s1 == ClientsRepo_ensure_loaded(self, file)
    IN Done(s1, Outcome(OK, s1.rows, NoneRec), TRUE)

ClientsRepo_self_insert(self, file, record) ==
    LET s1 == ClientsRepo_ensure_loaded(self, file)
        o == ClientsRepo_insert(s1.rows, record)
    IN Done([s1 EXCEPT !.rows = o.st], o, s1.autosave)

ClientsRepo_self_update(self, file, client_id, patch) ==
    LET s1 == ClientsRepo_ensure_loaded(self, file)
        o == ClientsRepo_update(s1.rows, client_id, patch)
    IN Done([s1 EXCEPT !.rows = o.st], o, o.err = OK /\ s1.autosave)

ClientsRepo_self_delete(self, file, client_id) ==
    LET s1 == ClientsRepo_ensure_loaded(self, file)
        o == ClientsRepo_delete(s1.rows, client_id)
    IN Done([s1 EXCEPT !.rows = o.st], o, o.ret /\ s1.autosave)

\* the file after a call of a repository method that ran to its end
FileAfter(file, d) == IF d.saves THEN save_list(file, d.self.rows) ELSE file

\* the file of a singleton repository (get_repo(), autosave from settings)
\* after a service call that changes records: insert, update and delete save
\* after their change and the service raises nothing after them
Autosaved(file, o) == IF AUTOSAVE /\ o.err = OK THEN save_list(file, o.st) ELSE file

(***************************************************************************)
(* The service calls as steps.  last records the call made and the error   *)
(* it raised (OK when it returned).                                        *)
(***************************************************************************)

\* cap on the length of the flights list
MaxFlights == 2

Result(op, o) == [op |-> op, err |-> o.err]

Call_create_client(payload) ==
    LET o == create_client(clients, payload)
    IN /\ clients' = o.st
       /\ files' = [files EXCEPT !.clients = Autosaved(@, o)]
       /\ last' = Result("create_client", o)
       /\ UNCHANGED <<airlines, flights, repos, pending, threads>>

Call_update_client(client_id, updates) ==
    LET o == update_client(clients, client_id, updates)
    IN /\ clients' = o.st
       /\ files' = [files EXCEPT !.clients = Autosaved(@, o)]
       /\ last' = Result("update_client", o)
       /\ UNCHANGED <<airlines, flights, repos, pending, threads>>

Call_delete_client(client_id) ==
    LET o == delete_client(clients, client_id)
    IN /\ clients' = o.st
       /\ files' = [files EXCEPT !.clients = Autosaved(@, o)]
       /\ last' = Result("delete_client", o)
       /\ UNCHANGED <<airlines, flights, repos, pending, threads>>

Call_get_client(client_id) ==
    LET o == get_client(clients, client_id)
    IN /\ last' = Result("get_client", o)
       /\ UNCHANGED <<clients, airlines, flights, files, repos, pending, threads>>

Call_create_airline(payload) ==
    LET o == create_airline(airlines, payload)
    IN /\ airlines' = o.st
       /\ files' = [files EXCEPT !.airlines = Autosaved(@, o)]
       /\ last' = Result("create_airline", o)
       /\ UNCHANGED <<clients, flights, repos, pending, threads>>

Call_update_airline(airline_id, updates) ==
    LET o == update_airline(airlines, airline_id, updates)
    IN /\ airlines' = o.st
       /\ files' = [files EXCEPT !.airlines = Autosaved(@, o)]
       /\ last' = Result("update_airline", o)
       /\ UNCHANGED <<clients, flights, repos, pending, threads>>

Call_delete_airline(airline_id) ==
    LET o == delete_airline(airlines, airline_id)
    IN /\ airlines' = o.st
       /\ files' = [files EXCEPT !.airlines = Autosaved(@, o)]
       /\ last' = Result("delete_airline", o)
       /\ UNCHANGED <<clients, flights, repos, pending, threads>>

Call_get_airline(airline_id) ==
    LET o == get_airline(airlines, airline_id)
    IN /\ last' = Result("get_airline", o)
       /\ UNCHANGED <<clients, airlines, flights, files, repos, pending, threads>>

Call_list_clients(limit, offset, sort) ==
    LET o == list_clients(clients, limit, offset, sort)
    IN /\ last' = Result("list_clients", o)
       /\ UNCHANGED <<clients, airlines, flights, files, repos, pending, threads>>

Call_search_clients(q, filters, limit, offset, sort) ==
    LET o == search_clients(clients, q, filters, limit, offset, sort)
    IN /\ last' = Result("search_clients", o)
       /\ UNCHANGED <<clients, airlines, flights, files, repos, pending, threads>>

Call_list_airlines(limit, offset, sort) ==
    LET o == list_airlines(airlines, limit, offset, sort)
    IN /\ last' = Result("list_airlines", o)
       /\ UNCHANGED <<clients, airlines, flights, files, repos, pending, threads>>

Call_search_airlines(q, type, sort) ==
    LET o == search_airlines(airlines, q, type, sort)
    IN /\ last' = Result("search_airlines", o)
       /\ UNCHANGED <<clients, airlines, flights, files, repos, pending, threads>>

Call_create_flight(payload) ==
    LET o == create_flight(flights, clients, airlines, payload)
    IN /\ Len(flights) < MaxFlights
       /\ flights' = o.st
       /\ files' = [files EXCEPT !.flights = Autosaved(@, o)]
       /\ last' = Result("create_flight", o)
       /\ UNCHANGED <<clients, airlines, repos, pending, threads>>

Call_update_flight(client_id, airline_id, date, updates) ==
    LET o == update_flight(flights, client_id, airline_id, date, updates)
    IN /\ flights' = o.st
       /\ files' = [files EXCEPT !.flights = Autosaved(@, o)]
       /\ last' = Result("update_flight", o)
       /\ UNCHANGED <<clients, airlines, repos, pending, threads>>

Call_delete_flight(client_id, airline_id, date) ==
    LET o == delete_flight(flights, client_id, airline_id, date)
    IN /\ flights' = o.st
       /\ files' = [files EXCEPT !.flights = Autosaved(@, o)]
       /\ last' = Result("delete_flight", o)
       /\ UNCHANGED <<clients, airlines, repos, pending, threads>>

Call_get_flight(client_id, airline_id, date) ==
    LET o == get_flight(flights, client_id, airline_id, date)
    IN /\ last' = Result("get_flight", o)
       /\ UNCHANGED <<clients, airlines, flights, files, repos, pending, threads>>

(***************************************************************************)
(* Repository objects as steps.  Two ClientsRepo objects work on the same  *)
(* clients.json: A saves after each change (autosave), B saves on save().  *)
(* A save writes the file in steps and the process may stop between them.  *)
(***************************************************************************)

Insts == {"A", "B"}

\* cap on the length of a repository object's list
MaxRows == 2

\* no save in progress
Idle == [active |-> FALSE, text |-> <<>>, n |-> 0, old |-> Absent]

\* the end of a method call by object i: the object and, when save() runs,
\* the first step of save_list.  found tells whether the call made its
\* change: insert and update returned, delete returned True
Finish(i, op, d) ==
    /\ repos' = [repos EXCEPT ![i] = d.self]
    /\ last' = [op |-> op, err |-> d.err, by |-> i,
                found |-> IF op = "delete" THEN d.ret ELSE d.err = OK]
    /\ IF d.saves
       THEN /\ pending' = [active |-> TRUE, text |-> json_dump(d.self.rows), n |-> 0,
                           old |-> files.clients]
            /\ files' = [files EXCEPT
                            !.clients = save_list_step(@, json_dump(d.self.rows), 0)]
       ELSE UNCHANGED <<pending, files>>
    /\ UNCHANGED <<clients, airlines, flights, threads>>

Repo_list_all(i) ==
    /\ ~pending.active
    /\ Finish(i, "list_all", ClientsRepo_self_list_all(repos[i], files.clients))

Repo_insert(i, record) ==
    /\ ~pending.active
    /\ Len(ClientsRepo_ensure_loaded(repos[i], files.clients).rows) < MaxRows
    /\ Finish(i, "insert", ClientsRepo_self_insert(repos[i], files.clients, record))

Repo_update(i, client_id, patch) ==
    /\ ~pending.active
    /\ Finish(i, "update", ClientsRepo_self_update(repos[i], files.clients, client_id, patch))

Repo_delete(i, client_id) ==
    /\ ~pending.active
    /\ Finish(i, "delete", ClientsRepo_self_delete(repos[i], files.clients, client_id))

Repo_save(i) ==
    /\ ~pending.active
    /\ Finish(i, "save", ClientsRepo_self_save(repos[i], files.clients))

Repo_reload(i) ==
    /\ ~pending.active
    /\ repos' = [repos EXCEPT ![i] = ClientsRepo_reload(@, files.clients)]
    /\ last' = [op |-> "reload", err |-> OK, by |-> i, found |-> TRUE]
    /\ UNCHANGED <<clients, airlines, flights, files, pending, threads>>

\* the next step of the save in progress: one more row, then the end of the
\* text, after which the call that saved returns
Save_step ==
    /\ pending.active
    /\ files' = [files EXCEPT !.clients = save_list_step(@, pending.text, pending.n + 1)]
    /\ pending' = IF pending.n = Len(pending.text) THEN Idle
                  ELSE [pending EXCEPT !.n = @ + 1]
    /\ UNCHANGED <<clients, airlines, flights, last, repos, threads>>

\* the process stops during a save: the file stays as it is and the objects
\* of the next process are new
Crash ==
    /\ pending.active
    /\ pending' = [pending EXCEPT !.active = FALSE]
    /\ repos' = [i \in Insts |-> ClientsRepo_init(repos[i].autosave)]
    /\ last' = [op |-> "crash", err |-> OK, by |-> last.by, found |-> FALSE]
    /\ UNCHANGED <<clients, airlines, flights, files, threads>>

(***************************************************************************)
(* serve_stdlib.py: ThreadingHTTPServer handles each request in a thread   *)
(* of its own, all on the same repository singleton.  A POST /clients is   *)
(* create_client, in which another thread may run between the uniqueness   *)
(* check and the insert.                                                   *)
(***************************************************************************)

Threads == {"t1", "t2"}

\* cap on the length of the clients list when a request starts
MaxClients == 2

\* a thread with no request
Ready == [pc |-> "ready", payload |-> NoneRec]

\* steps 1 and 2 of create_client; a failed check ends the request
Thread_check(t, payload) ==
    LET e == create_client_check(clients, payload)
    IN /\ threads[t].pc = "ready"
       /\ Len(clients) < MaxClients
       /\ threads' = [threads EXCEPT ![t] =
                         IF e = OK THEN [pc |-> "checked", payload |-> payload] ELSE Ready]
       /\ last' = IF e = OK THEN last ELSE [op |-> "create_client", err |-> e]
       /\ UNCHANGED <<clients, airlines, flights, files, repos, pending>>

\* steps 3 to 5 of create_client
Thread_insert(t) ==
    LET o == create_client_insert(clients, threads[t].payload)
    IN /\ threads[t].pc = "checked"
       /\ clients' = o.st
       /\ files' = [files EXCEPT !.clients = Autosaved(@, o)]
       /\ threads' = [threads EXCEPT ![t] = Ready]
       /\ last' = Result("create_client", o)
       /\ UNCHANGED <<airlines, flights, repos, pending>>

\* the repositories of a fresh data directory: load_list gives [] for each.
\* No file exists, no repository object has loaded, nothing is being saved and
\* no request is in progress
Init ==
    /\ clients = <<>>
    /\ airlines = <<>>
    /\ flights = <<>>
    /\ last = [op |-> "init", err |-> OK]
    /\ files = [clients |-> Absent, airlines |-> Absent, flights |-> Absent]
    /\ repos = [i \in Insts |-> ClientsRepo_init(i = "A")]
    /\ pending = Idle
    /\ threads = [t \in Threads |-> Ready]

(***************************************************************************)
(* Inputs                                                                  *)
(***************************************************************************)

\* every way of leaving keys out of a mapping
Partial(m) == {Without(m, D) : D \in SUBSET (DOMAIN m)}

\* client 1 is Zeta and every other client Alice, so that the order by name is
\* not the order by id
GoodClient(id, line2) ==
    [id |-> id, type |-> "Business", name |-> IF IntOf(id) = 1 THEN "Zeta" ELSE "Alice",
     address_line2 |-> line2,
     phone_number |-> "+506 8888-8888", zip_code |-> "10101"]

\* a well-formed payload and the payloads one defect away from it
ClientVariants(g) ==
    {g,
     Without(g, {"id"}),
     Without(g, {"name"}),
     Without(g, {"address_line2"}),
     [g EXCEPT !["name"] = " "],
     [g EXCEPT !["type"] = "business"],
     [g EXCEPT !["phone_number"] = "+1"],
     [g EXCEPT !["zip_code"] = "@!"]}

GoodAirline(id, type) == [id |-> id, type |-> type, company_name |-> "Air One"]

AirlineVariants(g) ==
    {g,
     Without(g, {"id"}),
     Without(g, {"company_name"}),
     [g EXCEPT !["type"] = "bogus"]}

\* identity values in request bodies: 0, 1, 2, "1", "abc"
BodyIds == {JInt(0), JInt(1), JInt(2), JStr(1), JText}

\* identity values in request paths
PathIds == {JInt(0), JInt(1), JInt(2)}

RecClientPayloads ==
    UNION {ClientVariants(GoodClient(i, l)) : i \in BodyIds, l \in {"", "Apt 1"}}

\* identity values in patches: 1, 2, "1", "abc"
PatchIds == {JInt(1), JInt(2), JStr(1), JText}

RecClientPatches ==
    UNION {Partial([id |-> i, address_line2 |-> l]) : i \in PatchIds, l \in {"", "Apt 1"}}
    \cup {[type |-> "business"], [phone_number |-> "+1"], [zip_code |-> "@!"],
          [type |-> "Business", phone_number |-> "+506 8888-8888", zip_code |-> "10101"]}

RecAirlinePayloads ==
    UNION {AirlineVariants(GoodAirline(i, t)) : i \in BodyIds, t \in {"national", "bogus"}}

RecAirlinePatches ==
    UNION {Partial([id |-> i, type |-> t]) : i \in PatchIds, t \in {"low_cost", "bogus"}}

\* the Client and Airline services on their two repositories
NextRecords ==
    \/ \E p \in RecClientPayloads : Call_create_client(p)
    \/ \E i \in PathIds, u \in RecClientPatches : Call_update_client(i, u)
    \/ \E i \in PathIds : Call_delete_client(i)
    \/ \E i \in PathIds : Call_get_client(i)
    \/ \E p \in RecAirlinePayloads : Call_create_airline(p)
    \/ \E i \in PathIds, u \in RecAirlinePatches : Call_update_airline(i, u)
    \/ \E i \in PathIds : Call_delete_airline(i)
    \/ \E i \in PathIds : Call_get_airline(i)

SpecRecords == Init /\ [][NextRecords]_vars

\* the records the query run stores: clients 1 (Zeta, also with the id given
\* as "1") and 2 (Alice), airlines 1 and 2 with different types
QryClientPayloads == {GoodClient(i, "") : i \in {JInt(1), JStr(1), JInt(2)}}

QryAirlinePayloads == {GoodAirline(JInt(1), "national"), GoodAirline(JInt(2), "low_cost")}

\* page sizes asked for: the default, 0, 1 and a value that is no integer
QryLimits == {JInt(DEFAULT_LIMIT), JInt(0), JInt(1), JText}

QryOffsets == {JInt(0), JInt(1)}

\* sort keys asked for: of the allow-list, in upper case, blank, outside it
QrySorts == {"id", "Name", "type", " ", "bogus"}

\* list and search of clients and airlines, on repositories that creates and
\* deletes fill and empty
NextQueries ==
    \/ \E p \in QryClientPayloads : Call_create_client(p)
    \/ \E i \in PathIds : Call_delete_client(i)
    \/ \E p \in QryAirlinePayloads : Call_create_airline(p)
    \/ \E i \in PathIds : Call_delete_airline(i)
    \/ \E l \in QryLimits, f \in QryOffsets, s \in QrySorts : Call_list_clients(l, f, s)
    \/ \E q \in {"", "ALI", "1", "zzz"}, t \in {None, "business", "vip"},
          l \in QryLimits, f \in QryOffsets, s \in QrySorts :
          Call_search_clients(q, [type |-> t], l, f, s)
    \/ \E l \in QryLimits, f \in QryOffsets, s \in QrySorts : Call_list_airlines(l, f, s)
    \/ \E q \in {"", "NAT", "2"}, t \in {None, "national"}, s \in QrySorts :
          Call_search_airlines(q, t, s)

SpecQueries == Init /\ [][NextQueries]_vars

\* the system run has one client (2) and one airline (1): a flight's
\* client_id and airline_id then differ, and the absent ids 1 and 2 are unknown
SysClientPayloads == {GoodClient(JInt(2), "")}

SysAirlinePayloads == {GoodAirline(JInt(1), "national")}

SysIds == {JInt(1), JInt(2)}

SysDates == {"2999-01-01", "1999-01-01"}

GoodFlight(c, a, d) ==
    [client_id |-> c, airline_id |-> a, date |-> d, start_city |-> "A", end_city |-> "B"]

SysFlightPayloads ==
    {GoodFlight(JInt(2), a, d) : a \in SysIds, d \in SysDates}
    \cup {GoodFlight(JInt(0), JInt(1), "2999-01-01"),
          GoodFlight(JInt(2), JText, "2999-01-01"),
          GoodFlight(JInt(2), JInt(1), "not-a-date"),
          Without(GoodFlight(JInt(2), JInt(1), "2999-01-01"), {"end_city"})}

\* patches of one key, and patches that carry the whole identity
SysFlightPatches ==
    {[start_city |-> "A2"]}
    \cup {[client_id |-> c] : c \in SysIds}
    \cup {[airline_id |-> a] : a \in SysIds}
    \cup {[date |-> d] : d \in SysDates \cup {"not-a-date"}}
    \cup {[client_id |-> JInt(2), airline_id |-> a, date |-> "2999-01-01",
            start_city |-> "A2"] : a \in SysIds}

\* the patches of the update_flight steps: one that is applied, one that moves
\* the flight to another airline, two that are turned down
SysStepPatches ==
    {[end_city |-> "B"], [airline_id |-> JInt(2)], [client_id |-> JInt(1)],
     [date |-> "not-a-date"]}

\* the keys the flight calls are addressed to
SysFlightKeys ==
    {<<JInt(2), a, d>> : a \in SysIds, d \in SysDates}
    \cup {<<JInt(1), JInt(1), "2999-01-01">>,
          <<JInt(0), JInt(1), "not-a-date">>}

\* the three services together
Next ==
    \/ \E p \in SysClientPayloads : Call_create_client(p)
    \/ \E i \in SysIds, u \in {[id |-> j] : j \in SysIds} : Call_update_client(i, u)
    \/ \E i \in SysIds : Call_delete_client(i)
    \/ \E i \in SysIds : Call_get_client(i)
    \/ \E p \in SysAirlinePayloads : Call_create_airline(p)
    \/ \E i \in SysIds, u \in {[id |-> j] : j \in SysIds} : Call_update_airline(i, u)
    \/ \E i \in SysIds : Call_delete_airline(i)
    \/ \E i \in SysIds : Call_get_airline(i)
    \/ \E p \in SysFlightPayloads : Call_create_flight(p)
    \/ \E key \in SysFlightKeys, u \in SysStepPatches :
          Call_update_flight(key[1], key[2], key[3], u)
    \/ \E key \in SysFlightKeys : Call_delete_flight(key[1], key[2], key[3])
    \/ \E key \in SysFlightKeys : Call_get_flight(key[1], key[2], key[3])

Spec == Init /\ [][Next]_vars

\* two spellings of one instant: a bare date and the date with its midnight
FormDates == {"2999-01-01", "2999-01-01T00:00:00"}

FormFlightPayloads == {GoodFlight(JInt(2), JInt(1), d) : d \in FormDates}

FormFlightPatches == {[start_city |-> "A2"], [end_city |-> "B2"]}

\* the flight calls for client 2 and airline 1 with the date in either spelling
NextFlightForms ==
    \/ \E p \in SysClientPayloads : Call_create_client(p)
    \/ \E p \in SysAirlinePayloads : Call_create_airline(p)
    \/ \E p \in FormFlightPayloads : Call_create_flight(p)
    \/ \E d \in FormDates : Call_get_flight(JInt(2), JInt(1), d)
    \/ \E d \in FormDates, u \in FormFlightPatches :
          Call_update_flight(JInt(2), JInt(1), d, u)
    \/ \E d \in FormDates : Call_delete_flight(JInt(2), JInt(1), d)

SpecFlightForms == Init /\ [][NextFlightForms]_vars

\* records and patches given to the repository objects
StoreRecords == {[id |-> JStr(1), name |-> "Alice", address_line2 |-> None]}

StorePatches == {[name |-> "Bob"]}

StoreIds == {1, 2}

\* two repository objects on one file
NextStorage ==
    \/ \E i \in Insts : Repo_list_all(i)
    \/ \E i \in Insts, r \in StoreRecords : Repo_insert(i, r)
    \/ \E i \in Insts, k \in StoreIds, u \in StorePatches : Repo_update(i, k, u)
    \/ \E i \in Insts, k \in StoreIds : Repo_delete(i, k)
    \/ \E i \in Insts : Repo_save(i)
    \/ \E i \in Insts : Repo_reload(i)
    \/ Save_step
    \/ Crash

SpecStorage == Init /\ [][NextStorage]_vars

\* bodies of the concurrent POST /clients requests
ThreadPayloads ==
    {GoodClient(JInt(1), ""), GoodClient(JInt(2), ""),
     [GoodClient(JInt(2), "") EXCEPT !["zip_code"] = "@!"]}

\* requests handled by two threads
NextThreads ==
    \/ \E t \in Threads, p \in ThreadPayloads : Thread_check(t, p)
    \/ \E t \in Threads : Thread_insert(t)
    \/ \E i \in SysIds : Call_delete_client(i)

SpecThreads == Init /\ [][NextThreads]_vars

(***************************************************************************)
(* Properties                                                              *)
(***************************************************************************)

\* the integer id of a stored client or airline
IdOf(rec) == IntOf(rec["id"])

HasId(list, n) == \E i \in 1..Len(list) : IdOf(list[i]) = n

\* the identity triple of a stored flight, ids as integers
TripleOf(f) == <<IntOf(f["client_id"]), IntOf(f["airline_id"]), f["date"]>>

HasTriple(fl, t) == \E i \in 1..Len(fl) : TripleOf(fl[i]) = t

\* a stored flight whose date is today or later references id n in the field
HasFutureFlight(field, n) ==
    \E j \in 1..Len(flights) :
        /\ IntOf(flights[j][field]) = n
        /\ parse_iso_datetime(flights[j]["date"]).err = OK
        /\ is_today_or_future(parse_iso_datetime(flights[j]["date"]))

\* the field is present and is not a blank string
Present(m, f) == f \in DOMAIN m /\ (f \in IdFields \/ Strip(m[f]) # "")

\* the field holds a positive integer
ValidId(m, f) == f \in DOMAIN m /\ CanInt(m[f]) /\ IntOf(m[f]) > 0

\* a flight payload that passes the checks made before the foreign keys are
\* looked up: required fields, integer ids, a date that parses
WellFormedFlight(p) ==
    /\ \A f \in REQUIRED_FIELDS : Present(p, f)
    /\ ValidId(p, "client_id") /\ ValidId(p, "airline_id")
    /\ p["date"] \in {"2999-01-01", "2999-01-01T00:00:00", "1999-01-01"}

\* C1: after any sequence of Client and Airline service calls, successful or
\* failing, no two clients share an id and no two airlines share an id, the
\* ids compared as integers.
C1_UniqueIds ==
    /\ \A i, j \in 1..Len(clients) : i # j => IdOf(clients[i]) # IdOf(clients[j])
    /\ \A i, j \in 1..Len(airlines) : i # j => IdOf(airlines[i]) # IdOf(airlines[j])

\* both repositories are full, an id is stored as the string "1", and the
\* last create was turned down as a duplicate
C1_Witness ==
    /\ Len(clients) = 2 /\ Len(airlines) = 2
    /\ \E i \in 1..2 : clients[i]["id"] = JStr(1)
    /\ \E i \in 1..2 : airlines[i]["id"] = JStr(1)
    /\ last.err = "DuplicateID"

\* C2: after any sequence of Flight service calls, no two stored flights
\* share the same (client_id, airline_id, date string) triple.
C2_UniqueTriples ==
    \A i, j \in 1..Len(flights) : i # j => TripleOf(flights[i]) # TripleOf(flights[j])

\* C3: a client or an airline that a stored flight dated today or later
\* references cannot be deleted: the delete fails with InvalidInput and the
\* record stays in its repository.
C3_DeleteGuarded ==
    /\ \A i \in 1..Len(clients) :
          HasFutureFlight("client_id", IdOf(clients[i])) =>
             LET o == delete_client(clients, clients[i]["id"])
             IN o.err = "InvalidInput" /\ o.st = clients
    /\ \A i \in 1..Len(airlines) :
          HasFutureFlight("airline_id", IdOf(airlines[i])) =>
             LET o == delete_airline(airlines, airlines[i]["id"])
             IN o.err = "InvalidInput" /\ o.st = airlines

\* C4: once no flight dated today or later references a stored client (its
\* only such flight has been deleted with delete_flight), delete_client of
\* that client succeeds and get_client of its id then fails with NotFound.
C4_DeleteAfterFlightGone ==
    \A i \in 1..Len(clients) :
        ~HasFutureFlight("client_id", IdOf(clients[i])) =>
           LET o == delete_client(clients, clients[i]["id"])
           IN /\ o.err = OK
              /\ get_client(o.st, clients[i]["id"]).err = "NotFound"

\* delete_flight has just removed the last flight, the client and the airline
\* it referenced are still stored
C4_Witness ==
    /\ last = [op |-> "delete_flight", err |-> OK]
    /\ flights = <<>>
    /\ Len(clients) = 1 /\ Len(airlines) = 1
    /\ delete_client(clients, clients[1]["id"]).err = OK

\* the payloads the duplicate-create property ranges over
C5ClientPayloads ==
    UNION {ClientVariants(GoodClient(i, "")) : i \in BodyIds \cup {JStr(2)}}

C5AirlinePayloads ==
    UNION {AirlineVariants(GoodAirline(i, t)) :
              i \in BodyIds \cup {JStr(2)}, t \in {"national", "bogus"}}

C5FlightPayloads ==
    UNION {{g, Without(g, {"end_city"}), [g EXCEPT !["start_city"] = "Z"]} :
              g \in {GoodFlight(c, a, d) : c \in SysIds \cup {JStr(2)},
                                           a \in SysIds \cup {JStr(1)}, d \in SysDates}}

\* C5: creating a client or an airline whose id is already stored fails and
\* leaves the list as it was, with DuplicateID once the payload carries the
\* required fields (the check made before the uniqueness check); creating a
\* flight whose triple is already stored fails with InvalidInput and leaves
\* the list as it was.
C5_DuplicateCreateRejected ==
    /\ \A p \in C5ClientPayloads :
          (ValidId(p, "id") /\ HasId(clients, IntOf(p["id"]))) =>
             LET o == create_client(clients, p)
             IN /\ o.err # OK /\ o.st = clients
                /\ (Present(p, "type") /\ Present(p, "name")) => o.err = "DuplicateID"
    /\ \A p \in C5AirlinePayloads :
          (ValidId(p, "id") /\ HasId(airlines, IntOf(p["id"]))) =>
             LET o == create_airline(airlines, p)
             IN /\ o.err # OK /\ o.st = airlines
                /\ (Present(p, "type") /\ Present(p, "company_name"))
                      => o.err = "DuplicateID"
    /\ \A p \in C5FlightPayloads :
          HasTriple(flights, <<IntOf(p["client_id"]), IntOf(p["airline_id"]), p["date"]>>) =>
             LET o == create_flight(flights, clients, airlines, p)
             IN o.err = "InvalidInput" /\ o.st = flights

\* a create was turned down as a duplicate while a flight is stored whose
\* client and airline both exist
C5_Witness ==
    /\ last.err = "DuplicateID"
    /\ last.op \in {"create_client", "create_airline"}
    /\ \E j \in 1..Len(flights) :
          /\ HasId(clients, IntOf(flights[j]["client_id"]))
          /\ HasId(airlines, IntOf(flights[j]["airline_id"]))

\* C6: for a stored client or airline, an update whose patch carries an id
\* (a positive integer, given as a number or as its digits) different from
\* the record's id fails with ImmutableID and leaves the list as it was.
C6_UpdateIdImmutable ==
    /\ \A i \in 1..Len(clients) : \A u \in RecClientPatches :
          (ValidId(u, "id") /\ IntOf(u["id"]) # IdOf(clients[i])) =>
             LET o == update_client(clients, JInt(IdOf(clients[i])), u)
             IN o.err = "ImmutableID" /\ o.st = clients
    /\ \A i \in 1..Len(airlines) : \A u \in RecAirlinePatches :
          (ValidId(u, "id") /\ IntOf(u["id"]) # IdOf(airlines[i])) =>
             LET o == update_airline(airlines, JInt(IdOf(airlines[i])), u)
             IN o.err = "ImmutableID" /\ o.st = airlines

\* an update was turned down with ImmutableID while the records 1 and 2 of
\* both repositories exist (every valid path id names a stored record)
C6_Witness ==
    /\ last.err = "ImmutableID"
    /\ last.op \in {"update_client", "update_airline"}
    /\ Len(clients) = 2 /\ Len(airlines) = 2

\* the patch sets a component of the flight's key to another value
ChangesKey(f, u) ==
    \/ "client_id" \in DOMAIN u /\ IntOf(u["client_id"]) # IntOf(f["client_id"])
    \/ "airline_id" \in DOMAIN u /\ IntOf(u["airline_id"]) # IntOf(f["airline_id"])
    \/ "date" \in DOMAIN u /\ u["date"] # f["date"]

\* C7: update_flight turns down with ImmutableID every patch that sets
\* client_id, airline_id or date to a value other than the stored flight's,
\* and the flight returned by a successful update has the triple it had.
C7_FlightKeyImmutable ==
    \A j \in 1..Len(flights) : \A u \in SysFlightPatches :
        LET f == flights[j]
            o == update_flight(flights, f["client_id"], f["airline_id"], f["date"], u)
        IN /\ ChangesKey(f, u) => o.err = "ImmutableID"
           /\ o.err = OK => TripleOf(o.ret) = TripleOf(f)

\* the flight payloads the foreign-key properties range over
FkFlightPayloads == C5FlightPayloads \cup SysFlightPayloads

\* C8: create_flight of a payload whose client_id is the id of no stored
\* client fails with InvalidInput and leaves the flights list as it was.
C8_UnknownClientRejected ==
    \A p \in FkFlightPayloads :
        (WellFormedFlight(p) /\ ~HasId(clients, IntOf(p["client_id"]))) =>
           LET o == create_flight(flights, clients, airlines, p)
           IN o.err = "InvalidInput" /\ o.st = flights

\* C9: create_flight of a payload whose airline_id (a positive integer) is
\* the id of no stored airline fails and leaves the flights list as it was;
\* the error is InvalidInput once the payload has its required fields,
\* integer ids and a date that parses.
C9_UnknownAirlineRejected ==
    \A p \in FkFlightPayloads :
        (ValidId(p, "airline_id") /\ ~HasId(airlines, IntOf(p["airline_id"]))) =>
           LET o == create_flight(flights, clients, airlines, p)
           IN /\ o.err # OK /\ o.st = flights
              /\ WellFormedFlight(p) => o.err = "InvalidInput"

\* create_flight has just failed with InvalidInput while the client exists
\* and no airline does, so that every well-formed payload is turned down for
\* its airline_id
C9_Witness ==
    /\ last = [op |-> "create_flight", err |-> "InvalidInput"]
    /\ airlines = <<>> /\ Len(clients) = 1
    /\ \E p \in SysFlightPayloads :
          /\ WellFormedFlight(p) /\ HasId(clients, IntOf(p["client_id"]))
          /\ create_flight(flights, clients, airlines, p).err = "InvalidInput"

\* the payloads the round-trip property ranges over
C10ClientPayloads ==
    UNION {ClientVariants(GoodClient(i, l)) : i \in BodyIds, l \in {"", " ", "Apt 1"}}

C10AirlinePayloads ==
    UNION {AirlineVariants(GoodAirline(i, t)) :
              i \in BodyIds, t \in {"national", "low_cost", "Regional", "bogus"}}

CanonicalOf(t, allowed) ==
    CHOOSE opt \in allowed : Lower(opt) = Lower(ReplaceUnderscore(Strip(t)))

\* client payloads whose type is an allowed value in lower case
C11ClientPayloads ==
    {[GoodClient(i, "") EXCEPT !["type"] = t] :
        i \in {JInt(1), JInt(2)}, t \in {"business", "vip", "corporate"}}

\* C11: creating a client whose type is a non-canonical spelling of an
\* allowed value ("business", "vip", "corporate") and whose id is free
\* succeeds, and the record created and the record a later get returns carry
\* the canonical spelling ("Business", "VIP", "Corporate").
C11_ClientTypeCanonicalised ==
    \A p \in C11ClientPayloads :
        ~HasId(clients, IntOf(p["id"])) =>
           LET o == create_client(clients, p) IN
           /\ o.err = OK
           /\ o.ret["type"] = CanonicalOf(p["type"], CLIENT_TYPES)
           /\ get_client(o.st, p["id"]).err = OK
           /\ get_client(o.st, p["id"]).ret["type"] = CanonicalOf(p["type"], CLIENT_TYPES)

\* patches that carry a type, well spelled, loosely spelled or unknown
C12ClientPatches == {[type |-> t] : t \in {"VIP", "vip", "business", "bogus", " "}}

C12AirlinePatches ==
    {[type |-> t] : t \in {"Charter", "charter", "low_cost", "Low_Cost", "bogus", " "}}

TypesIn(list, allowed) == \A i \in 1..Len(list) : list[i]["type"] \in allowed

C13Ids == {1, 2}

\* C13: deleting a stored client or airline succeeds and leaves its id
\* absent; for an absent id, get fails with NotFound and delete fails with
\* NotFound and leaves the list as it is, so a second delete of the id fails.
C13_DeletedStaysAbsent ==
    /\ \A n \in C13Ids :
          IF HasId(clients, n)
          THEN LET o == delete_client(clients, JInt(n)) IN
               /\ o.err = OK /\ ~HasId(o.st, n)
               /\ get_client(o.st, JInt(n)).err = "NotFound"
               /\ delete_client(o.st, JInt(n)).err = "NotFound"
               /\ delete_client(o.st, JInt(n)).st = o.st
          ELSE /\ get_client(clients, JInt(n)).err = "NotFound"
               /\ delete_client(clients, JInt(n)).err = "NotFound"
               /\ delete_client(clients, JInt(n)).st = clients
    /\ \A n \in C13Ids :
          IF HasId(airlines, n)
          THEN LET o == delete_airline(airlines, JInt(n)) IN
               /\ o.err = OK /\ ~HasId(o.st, n)
               /\ get_airline(o.st, JInt(n)).err = "NotFound"
               /\ delete_airline(o.st, JInt(n)).err = "NotFound"
               /\ delete_airline(o.st, JInt(n)).st = o.st
          ELSE /\ get_airline(airlines, JInt(n)).err = "NotFound"
               /\ delete_airline(airlines, JInt(n)).err = "NotFound"
               /\ delete_airline(airlines, JInt(n)).st = airlines

\* delete_airline has just removed one of two airlines: the id it removed is
\* absent and the other is stored; a client has been deleted as well
C13_Witness ==
    /\ last = [op |-> "delete_airline", err |-> OK]
    /\ Len(airlines) = 1 /\ Len(clients) = 1
    /\ \E n \in C13Ids : ~HasId(airlines, n) /\ delete_airline(airlines, JInt(n)).err = "NotFound"

\* payloads with any combination of defects: id, type or name missing, id
\* malformed or not positive, type unknown, name blank, phone malformed
C14ClientPayloads ==
    UNION {{Without(g, D) : D \in SUBSET {"id", "type", "name"}} :
              g \in {[id |-> i, type |-> t, name |-> n, phone_number |-> ph,
                      zip_code |-> "10101"] :
                        i \in BodyIds, t \in {"Business", "bogus"}, n \in {"Alice", " "},
                        ph \in {"+506 8888-8888", "+1"}}}

C14AirlinePayloads ==
    UNION {Partial([id |-> i, type |-> t, company_name |-> n]) :
              i \in BodyIds, t \in {"National", "bogus"}, n \in {"Air One", " "}}

\* the error of a create whose checks run in the order: required fields, id
\* validity, id uniqueness, enum and formats (e is the error the call gave,
\* which the last stage may only give as InvalidInput)
InCheckOrder(list, p, required, e) ==
    IF \E f \in required : ~Present(p, f) THEN e = "InvalidInput"
    ELSE IF ~ValidId(p, "id") THEN e = "InvalidID"
    ELSE IF HasId(list, IntOf(p["id"])) THEN e = "DuplicateID"
    ELSE e \in {OK, "InvalidInput"}

C15Limits == {0, 1, 2, 3}

C15Offsets == {0, 1, 2, 3}

\* full is the list in the order of the key: the same records, keys ascending,
\* records with equal keys in the order they have in the list
IsSortedBy(full, list, key, allowed) ==
    /\ Len(full) = Len(list)
    /\ \A i \in 1..Len(list) : \E j \in 1..Len(full) : full[j] = list[i]
    /\ \A i, j \in 1..Len(full) :
          i < j => _safe_sort_key(full[i], key, allowed) <= _safe_sort_key(full[j], key, allowed)
    /\ \A i, j \in 1..Len(list) :
          (i < j /\ _safe_sort_key(list[i], key, allowed) = _safe_sort_key(list[j], key, allowed))
             => \E a, b \in 1..Len(full) : a < b /\ full[a] = list[i] /\ full[b] = list[j]

\* data is the window [O, O + L) of full
IsWindow(data, full, L, O) ==
    /\ Len(data) = PyMax(0, PyMin(O + L, Len(full)) - O)
    /\ \A i \in 1..Len(data) : data[i] = full[O + i]

\* C15: list with limit L, offset O and sort key S returns the window
\* [O, O + L) of the whole collection sorted by S, and count is the size of
\* the whole collection; an offset past the end gives an empty window with
\* that count.
C15_ListWindow ==
    /\ \A L \in C15Limits, O \in C15Offsets, S \in Clients_ALLOWED_SORTS :
          LET o == list_clients(clients, JInt(L), JInt(O), S)
              full == list_clients(clients, JInt(MAX_LIMIT), JInt(0), S).ret.data
          IN /\ o.err = OK
             /\ o.ret.count = Len(clients)
             /\ IsSortedBy(full, clients, S, Clients_ALLOWED_SORTS)
             /\ IsWindow(o.ret.data, full, L, O)
             /\ O >= Len(clients) => o.ret.data = <<>>
    /\ \A L \in C15Limits, O \in C15Offsets, S \in Airlines_ALLOWED_SORTS :
          LET o == list_airlines(airlines, JInt(L), JInt(O), S)
              full == list_airlines(airlines, JInt(MAX_LIMIT), JInt(0), S).ret.data
          IN /\ o.err = OK
             /\ o.ret.count = Len(airlines)
             /\ IsSortedBy(full, airlines, S, Airlines_ALLOWED_SORTS)
             /\ IsWindow(o.ret.data, full, L, O)
             /\ O >= Len(airlines) => o.ret.data = <<>>

\* limits and offsets as a request gives them: numbers below, in and above
\* the range, and digits in a string
C16Limits == {JInt(-1), JInt(0), JInt(1), JInt(2), JStr(1), JInt(MAX_LIMIT), JInt(MAX_LIMIT + 1)}

C16Offsets == {JInt(-1), JInt(0), JInt(1), JInt(3)}

\* the requested limit clamped into 0..MAX_LIMIT
EffectiveLimit(limit) == PyMax(0, PyMin(IntOf(limit), MAX_LIMIT))

\* C16: for every limit and offset asked for, the data of list_clients,
\* search_clients and list_airlines holds at most the effective limit (the
\* limit clamped into 0..200) and so at most 200 records.
C16_PageSizeCapped ==
    \A l \in C16Limits, f \in C16Offsets :
        LET a == list_clients(clients, l, f, "id")
            b == search_clients(clients, "", [type |-> None], l, f, "id")
            c == list_airlines(airlines, l, f, "id")
        IN /\ a.err = OK /\ b.err = OK /\ c.err = OK
           /\ Len(a.ret.data) <= EffectiveLimit(l) /\ Len(a.ret.data) <= MAX_LIMIT
           /\ Len(b.ret.data) <= EffectiveLimit(l) /\ Len(b.ret.data) <= MAX_LIMIT
           /\ Len(c.ret.data) <= EffectiveLimit(l) /\ Len(c.ret.data) <= MAX_LIMIT

\* sort keys outside both allow-lists
C17Sorts == {"bogus", "phone_number"}

\* C17: list and search called with a sort key outside the allow-list do not
\* fail and return what they return for the sort key "id".
C17_UnknownSortFallsBack ==
    \A S \in C17Sorts :
        /\ list_clients(clients, JInt(DEFAULT_LIMIT), JInt(0), S)
              = list_clients(clients, JInt(DEFAULT_LIMIT), JInt(0), "id")
        /\ search_clients(clients, "", [type |-> None], JInt(DEFAULT_LIMIT), JInt(0), S)
              = search_clients(clients, "", [type |-> None], JInt(DEFAULT_LIMIT), JInt(0), "id")
        /\ list_airlines(airlines, JInt(DEFAULT_LIMIT), JInt(0), S)
              = list_airlines(airlines, JInt(DEFAULT_LIMIT), JInt(0), "id")
        /\ search_airlines(airlines, "", None, S) = search_airlines(airlines, "", None, "id")

\* every flight of before whose triple is not key is in after as it was
OthersKept(before, after, key) ==
    \A j \in 1..Len(before) :
        TripleOf(before[j]) # key => \E k \in 1..Len(after) : after[k] = before[j]

\* C18: the date of a flight's key is the string as given: with a flight
\* stored under one spelling of a date, a flight of the same client and
\* airline under the other spelling can be created, and get, update and
\* delete addressed to one spelling leave the flight of the other as it was.
C18_RawDateIdentity ==
    /\ \A d1, d2 \in FormDates :
          (/\ d1 # d2 /\ HasId(airlines, 1)
           /\ HasTriple(flights, <<2, 1, d1>>) /\ ~HasTriple(flights, <<2, 1, d2>>)) =>
             LET o == create_flight(flights, clients, airlines, GoodFlight(JInt(2), JInt(1), d2))
             IN /\ o.err = OK /\ Len(o.st) = Len(flights) + 1
                /\ HasTriple(o.st, <<2, 1, d1>>) /\ HasTriple(o.st, <<2, 1, d2>>)
    /\ \A d \in FormDates :
          LET key == <<2, 1, d>>
              g == get_flight(flights, JInt(2), JInt(1), d)
              u == update_flight(flights, JInt(2), JInt(1), d, [start_city |-> "Z"])
              x == delete_flight(flights, JInt(2), JInt(1), d)
          IN /\ g.st = flights /\ (g.err = OK => g.ret["date"] = d)
             /\ Len(u.st) = Len(flights) /\ OthersKept(flights, u.st, key)
             /\ (u.err = OK => u.ret["date"] = d)
             /\ OthersKept(flights, x.st, key)
             /\ (x.err = OK => Len(x.st) = Len(flights) - 1 /\ ~HasTriple(x.st, key))

\* both spellings are stored for the same client and airline, they parse to the
\* same instant, and an update has just changed one flight and not the other
C18_Witness ==
    /\ last = [op |-> "update_flight", err |-> OK]
    /\ Len(flights) = 2
    /\ TripleOf(flights[1])[1] = TripleOf(flights[2])[1]
    /\ TripleOf(flights[1])[2] = TripleOf(flights[2])[2]
    /\ {flights[1]["date"], flights[2]["date"]} = FormDates
    /\ parse_iso_datetime(flights[1]["date"]) = parse_iso_datetime(flights[2]["date"])
    /\ flights[1]["start_city"] # flights[2]["start_city"]

\* C19: in each repository, update with a patch that carries the identity
\* with another value merges the other fields of the patch and leaves the
\* identity of the stored record as it was.
C19_RepoUpdateKeepsIdentity ==
    /\ \A i \in 1..Len(clients) :
          LET o == ClientsRepo_update(clients, IdOf(clients[i]),
                                      [id |-> JInt(9), name |-> "Bob"])
          IN /\ o.err = OK /\ o.ret["name"] = "Bob"
             /\ o.ret["id"] = clients[i]["id"] /\ o.st[i] = o.ret
    /\ \A i \in 1..Len(airlines) :
          LET o == AirlinesRepo_update(airlines, IdOf(airlines[i]),
                                       [id |-> JInt(9), company_name |-> "Air Two"])
          IN /\ o.err = OK /\ o.ret["company_name"] = "Air Two"
             /\ o.ret["id"] = airlines[i]["id"] /\ o.st[i] = o.ret
    /\ \A i \in 1..Len(flights) :
          LET t == TripleOf(flights[i])
              o == FlightsRepo_update(flights, t[1], t[2], t[3],
                      [client_id |-> JInt(9), airline_id |-> JInt(9),
                       date |-> "1999-12-31", start_city |-> "Z"])
          IN /\ o.err = OK /\ o.ret["start_city"] = "Z"
             /\ TripleOf(o.ret) = t

\* the methods of a repository that hand out records
RepoMethods == {"list_all", "get_by_id", "insert", "update"}

\* C20: a caller that changes a record handed out by list_all, get_by_id (for
\* flights get_one), insert or update of a repository changes nothing of what
\* the repository holds and returns afterwards.
C20_ReturnedRecordsIndependent ==
    \A m \in RepoMethods :
       /\ \A i \in 1..Len(clients) :
             LET after == CallerMutates(clients, i, ClientsRepo_shares(m), "name", "Mallory")
             IN /\ after = clients
                /\ ClientsRepo_get_by_id(after, IdOf(clients[i]))
                      = ClientsRepo_get_by_id(clients, IdOf(clients[i]))
       /\ \A i \in 1..Len(airlines) :
             CallerMutates(airlines, i, AirlinesRepo_shares(m), "company_name", "Mallory")
                = airlines
       /\ \A i \in 1..Len(flights) :
             CallerMutates(flights, i, FlightsRepo_shares(m), "start_city", "Mallory")
                = flights

(***************************************************************************)
(* Properties of the repository objects and their file                     *)
(***************************************************************************)

\* the calls that change the list
Mutators == {"insert", "update", "delete"}

\* the file that holds the complete text of rows
FileOf(rows) == [exists |-> TRUE, rows |-> json_dump(rows), closed |-> TRUE]

\* C21: when an autosaving repository object has completed an insert, an
\* update or a delete that made its change, the file holds the text of the
\* object's list, and a new object opened on the file loads that list.
C21_AutosaveFileIsMemory ==
    (/\ ~pending.active
     /\ last.op \in Mutators
     /\ last.found
     /\ repos[last.by].autosave)
    => /\ files.clients = FileOf(repos[last.by].rows)
       /\ ClientsRepo_self_list_all(ClientsRepo_init(FALSE), files.clients).ret
             = repos[last.by].rows

\* an autosaving object completed a delete while the other object holds a
\* list that differs from the file
C21_Witness ==
    /\ ~pending.active
    /\ last.op = "delete" /\ last.found /\ last.by = "A"
    /\ Len(repos["A"].rows) = 1
    /\ repos["B"].loaded /\ repos["B"].rows # repos["A"].rows

\* C22: while a save is in progress, and after the process stopped during a
\* save, the file holds the complete previous content or the complete new
\* content.
C22_SaveAtomic ==
    (pending.active \/ last.op = "crash")
    => files.clients \in {pending.old,
                          [exists |-> TRUE, rows |-> pending.text, closed |-> TRUE]}

\* C23: once a repository object has loaded, the file exists (loading from a
\* missing file gives the empty list and creates the file).
C23_LoadCreatesFile ==
    \A i \in Insts :
       repos[i].loaded =>
          /\ files.clients.exists
          /\ (files.clients = FileOf(<<>>) => repos[i].rows = <<>>)

\* the call that ended as d left the file as it was: no save ran, a reload
\* gives the content of the file, a save writes the object's list
KeptInMemory(file, d) ==
    /\ ~d.saves
    /\ FileAfter(file, d) = file
    /\ ClientsRepo_reload(d.self, FileAfter(file, d)).rows = load_list(file)
    /\ FileAfter(file, ClientsRepo_self_save(d.self, file)) = FileOf(d.self.rows)

\* C24: on an object without autosave, insert, update and delete leave the
\* file as it is, a reload after them makes the list the content of the file
\* again, and a save after them writes the changed list.
C24_ManualSaveOnly ==
    ~pending.active =>
      \A i \in Insts : ~repos[i].autosave =>
        /\ \A r \in StoreRecords :
              KeptInMemory(files.clients,
                           ClientsRepo_self_insert(repos[i], files.clients, r))
        /\ \A k \in StoreIds, u \in StorePatches :
              KeptInMemory(files.clients,
                           ClientsRepo_self_update(repos[i], files.clients, k, u))
        /\ \A k \in StoreIds :
              KeptInMemory(files.clients,
                           ClientsRepo_self_delete(repos[i], files.clients, k))

\* the object without autosave has inserted and holds a list that is not the
\* content of the file
C24_Witness ==
    /\ ~pending.active
    /\ last.op = "insert" /\ last.by = "B"
    /\ files.clients.exists
    /\ repos["B"].rows # load_list(files.clients)

\* C25: an object that has loaded answers reads from its list whatever the
\* file holds; reload makes the list the content of the file; a save writes
\* the object's list over the file.
C25_CacheUntilReload ==
    ~pending.active =>
      \A i \in Insts : repos[i].loaded =>
        /\ ClientsRepo_self_list_all(repos[i], files.clients).ret = repos[i].rows
        /\ ClientsRepo_self_list_all(repos[i], files.clients).self = repos[i]
        /\ ClientsRepo_reload(repos[i], files.clients).rows = load_list(files.clients)
        /\ FileAfter(files.clients, ClientsRepo_self_save(repos[i], files.clients))
              = FileOf(repos[i].rows)

\* the other object saved a list that the loaded object A does not hold
C25_Witness ==
    /\ ~pending.active
    /\ last.op = "save" /\ last.by = "B"
    /\ repos["A"].loaded
    /\ Len(load_list(files.clients)) = 2
    /\ repos["A"].rows # load_list(files.clients)

(***************************************************************************)
(* Properties of the services on their repositories and files              *)
(***************************************************************************)

\* the ids looked up
C26Ids == {1, 2, 3}

\* C26: get_by_id of the clients repository and of the airlines repository,
\* on an id that no stored record has, returns None and raises nothing.
C26_AbsentGetReturnsNone ==
    \A k \in C26Ids :
       /\ ~HasId(clients, k) =>
             /\ ~ClientsRepo_get_by_id_raises(clients, k)
             /\ ClientsRepo_get_by_id(clients, k) = NoneRec
       /\ ~HasId(airlines, k) =>
             /\ AirlinesRepo_get_by_id(airlines, k).err = OK
             /\ AirlinesRepo_get_by_id(airlines, k).ret = NoneRec

\* C27: every stored flight dated today or later has the client_id of a
\* stored client and the airline_id of a stored airline.
C27_FutureFlightsReferToRecords ==
    \A j \in 1..Len(flights) :
       (/\ parse_iso_datetime(flights[j]["date"]).err = OK
        /\ is_today_or_future(parse_iso_datetime(flights[j]["date"])))
       => /\ HasId(clients, IntOf(flights[j]["client_id"]))
          /\ HasId(airlines, IntOf(flights[j]["airline_id"]))

\* the errors of the domain
DomainErrors == {"InvalidID", "DuplicateID", "ImmutableID", "InvalidInput", "NotFound"}

\* the call that ended as o, on the list before and its file, raised nothing
\* or left the list and the file as they were
NoEffectOnError(before, file, o) ==
    o.err \in DomainErrors => o.st = before /\ Autosaved(file, o) = file

\* the calls the property ranges over: ids 0, 1, 2 and "abc", payloads one
\* defect away from a good one, patches that are applied and patches that
\* are turned down
C28Ids == {JInt(0), JInt(1), JInt(2), JText}

C28ClientPayloads ==
    UNION {ClientVariants(GoodClient(i, "")) : i \in {JInt(0), JInt(2)}}

C28ClientPatches ==
    {[id |-> JInt(1)], [id |-> JInt(2)], [id |-> JText], [type |-> "business"],
     [phone_number |-> "+1"], [zip_code |-> "@!"], [name |-> "Bob"]}

C28AirlinePayloads ==
    UNION {AirlineVariants(GoodAirline(i, "national")) : i \in {JInt(0), JInt(1)}}

C28AirlinePatches ==
    {[id |-> JInt(1)], [id |-> JInt(2)], [id |-> JText], [type |-> "bogus"],
     [company_name |-> "Air Two"]}

\* C28: a service call that ends in a domain error leaves the list it works
\* on, and the file of that list, as they were (a call is given one list to
\* change; the other two lists and files are not in its reach).
C28_ErrorsChangeNothing ==
    /\ \A p \in C28ClientPayloads :
          NoEffectOnError(clients, files.clients, create_client(clients, p))
    /\ \A i \in C28Ids, u \in C28ClientPatches :
          NoEffectOnError(clients, files.clients, update_client(clients, i, u))
    /\ \A i \in C28Ids :
          /\ NoEffectOnError(clients, files.clients, delete_client(clients, i))
          /\ NoEffectOnError(clients, files.clients, get_client(clients, i))
    /\ \A p \in C28AirlinePayloads :
          NoEffectOnError(airlines, files.airlines, create_airline(airlines, p))
    /\ \A i \in C28Ids, u \in C28AirlinePatches :
          NoEffectOnError(airlines, files.airlines, update_airline(airlines, i, u))
    /\ \A i \in C28Ids :
          /\ NoEffectOnError(airlines, files.airlines, delete_airline(airlines, i))
          /\ NoEffectOnError(airlines, files.airlines, get_airline(airlines, i))
    /\ \A p \in SysFlightPayloads :
          NoEffectOnError(flights, files.flights,
                          create_flight(flights, clients, airlines, p))
    /\ \A key \in SysFlightKeys :
          /\ \A u \in SysFlightPatches :
                NoEffectOnError(flights, files.flights,
                                update_flight(flights, key[1], key[2], key[3], u))
          /\ NoEffectOnError(flights, files.flights,
                             delete_flight(flights, key[1], key[2], key[3]))
          /\ NoEffectOnError(flights, files.flights,
                             get_flight(flights, key[1], key[2], key[3]))

\* a call has just ended in ImmutableID while each of the three lists holds
\* a record and each file holds its list
C28_Witness ==
    /\ last.err = "ImmutableID"
    /\ Len(clients) = 1 /\ Len(airlines) = 1 /\ Len(flights) = 2
    /\ files.clients = FileOf(clients)
    /\ files.airlines = FileOf(airlines)
    /\ files.flights = FileOf(flights)

\* C29: update_flight addressed to a stored flight, with a patch that repeats
\* the flight's client_id, airline_id and date and sets start_city, succeeds
\* and returns the flight with the new start_city.
C29_OwnKeyPatchAccepted ==
    \A j \in 1..Len(flights) :
       LET f == flights[j]
           u == [client_id |-> f["client_id"], airline_id |-> f["airline_id"],
                 date |-> f["date"], start_city |-> "Q"]
           o == update_flight(flights, f["client_id"], f["airline_id"], f["date"], u)
       IN /\ o.err # "ImmutableID"
          /\ o.err = OK
          /\ o.ret["start_city"] = "Q"

\* C30: with requests handled by concurrent threads, no two stored clients
\* have the same id.
C30_ConcurrentCreateUnique ==
    \A i, j \in 1..Len(clients) : IdOf(clients[i]) = IdOf(clients[j]) => i = j

====
